---- MODULE Spec2Model ----
(***************************************************************************)
(* generate_dashboard.py: a one-shot script that loads a CSV of customer   *)
(* reviews, derives aggregates and writes one HTML document.               *)
(*                                                                         *)
(* Conventions of the model                                                *)
(*   - a string is the sequence of its Unicode code points;                *)
(*   - a rating is a float in the script (the column is never cast):       *)
(*     the model stores twice the rating, so 3.5 stars is 7 and            *)
(*     Stars(4) is 8;                                                      *)
(*   - rounded floats are stored as scaled integers (hundredths for        *)
(*     round(x, 2), tenths for round(x, 1));                               *)
(*   - a missing cell of a text column is NA, a missing date is NaT, an    *)
(*     empty cell of a numeric column is NaN.                              *)
(***************************************************************************)
EXTENDS Integers, Sequences, FiniteSets, TLC

(***************************************************************************)
(* Bounds of the model                                                     *)
(***************************************************************************)
MaxRows == 3        \* longest table drawn freely from a record family
MaxWords == 3       \* longest text, in vocabulary words, given to detect_lang

(***************************************************************************)
(* Program constants                                                       *)
(***************************************************************************)
\* SAMPLE_N is 1500 in the script; it is scaled down here so that both
\* branches of min(SAMPLE_N, len(df)) occur on tables of a few rows.
SAMPLE_N == 2
TOP_N == 12
AUTHOR_MAX == 30
DATE_MAX == 10
TEXT_MAX == 300
RANDOM_STATE == 42

(***************************************************************************)
(* State                                                                   *)
(***************************************************************************)
VARIABLES
    csv_file,        \* the file at CSV_PATH: [exists, readable, columns, rows]
    out_file,        \* the file at OUT_PATH: [exists, content]
    pc,              \* the section of the script about to run
    err,             \* the exception that ended the run, "" if none
    run,             \* 1 for the first run of the script, 2 for a second one
    prev,            \* what the previous run left: [content, year]
    round_nan,       \* what round(nan) does in this build, once observed
    now_year,        \* datetime.now().year as read by the script
    df, meta, rating_all, full_years, rating_by_year, yearly, monthly,
    heatmap, stacked, words, top_reviews, sample, languages, DATA,
    \* the generated document, opened in a browser
    page_script,     \* how the <script> block ended: "none" before the load
    D,               \* const D, the data literal of the document
    active,          \* the elements carrying the class 'active', by group
    sidebar_open,    \* #sidebar carries the class 'open'
    overlay_show,    \* #overlay carries the class 'show'
    charts,          \* canvas id -> the data of the datasets of its chart
    html,            \* element id -> the content written into it
    last_call        \* the arguments of the latest call of each handler

script == <<df, meta, rating_all, full_years, rating_by_year, yearly, monthly,
            heatmap, stacked, words, top_reviews, sample, languages, DATA>>
browser == <<page_script, D, active, sidebar_open, overlay_show, charts, html,
             last_call>>
vars == <<csv_file, out_file, pc, err, run, prev, round_nan, now_year, script,
          browser>>

(***************************************************************************)
(* Generic helpers                                                         *)
(***************************************************************************)
Min(a, b) == IF a <= b THEN a ELSE b

Range(s) == {s[i] : i \in 1..Len(s)}

RECURSIVE SumSeq(_)
SumSeq(s) == IF s = <<>> THEN 0 ELSE Head(s) + SumSeq(Tail(s))

\* s[:n]
Prefix(s, n) == SubSeq(s, 1, Min(n, Len(s)))

\* sorted(set) for a set of integers
RECURSIVE SortedInts(_)
SortedInts(S) ==
    IF S = {} THEN <<>>
    ELSE LET m == CHOOSE x \in S : \A y \in S : x <= y
         IN <<m>> \o SortedInts(S \ {m})

\* stable sort: elements that Before does not order keep their input order
StableSort(s, Before(_, _)) ==
    LET n == Len(s)
        \* number of elements placed ahead of s[i]
        Rank(i) == Cardinality({j \in 1..n :
                       \/ Before(s[j], s[i])
                       \/ (~Before(s[i], s[j]) /\ j < i)})
    IN [k \in 1..n |-> s[CHOOSE i \in 1..n : Rank(i) = k - 1]]

\* variant: the quotient is cut, not rounded
RoundDivDown(num, den) == num \div den

\* round-half-even of num/den (num >= 0, den > 0)
RoundDiv(num, den) ==
    LET q == num \div den
        r == num % den
    IN IF 2 * r < den THEN q
       ELSE IF 2 * r > den THEN q + 1
       ELSE IF q % 2 = 0 THEN q ELSE q + 1

(***************************************************************************)
(* Strings                                                                 *)
(***************************************************************************)
NA == <<-1>>                         \* NaN in a column of strings

\* str(n) for n >= 0
RECURSIVE Str(_)
Str(n) == IF n < 10 THEN <<48 + n>> ELSE Str(n \div 10) \o <<48 + (n % 10)>>

\* str.zfill(width)
RECURSIVE zfill(_, _)
zfill(s, width) == IF Len(s) >= width THEN s ELSE zfill(<<48>> \o s, width)

\* str.lower() of one code point (ASCII, Latin-1 and the ligature)
LowerChar(c) ==
    IF c \in 65..90 THEN c + 32
    ELSE IF c \in 192..222 /\ c # 215 THEN c + 32
    ELSE IF c = 338 THEN 339
    ELSE c

lower(t) == [i \in 1..Len(t) |-> LowerChar(t[i])]

\* a < b for strings (code point order, as Python compares str)
RECURSIVE StrLess(_, _)
StrLess(a, b) ==
    IF b = <<>> THEN FALSE
    ELSE IF a = <<>> THEN TRUE
    ELSE IF Head(a) # Head(b) THEN Head(a) < Head(b)
    ELSE StrLess(Tail(a), Tail(b))

\* m in t (substring test)
Contains(m, t) ==
    \E i \in 1..(Len(t) - Len(m) + 1) : \A k \in 1..Len(m) : t[i + k - 1] = m[k]

\* the character class [\u0600-\u06FF]
IsArabic(c) == c >= 1536 /\ c <= 1791

\* the character class [a-zA-Z] plus the thirteen accented letters of the script
LatinAccents == {233, 232, 224, 249, 244, 226, 234, 238, 251, 239, 235, 252, 339}
IsLatin(c) == c \in 65..90 \/ c \in 97..122 \/ c \in LatinAccents

\* len(re.findall(class, text)) for a one-character class
CountChars(text, InClass(_)) == Cardinality({i \in 1..Len(text) : InClass(text[i])})

(***************************************************************************)
(* detect_lang                                                             *)
(***************************************************************************)
fr_markers == <<
    <<108, 101, 32>>,                \* 'le '
    <<108, 97, 32>>,                 \* 'la '
    <<108, 101, 115, 32>>,           \* 'les '
    <<101, 115, 116, 32>>,           \* 'est '
    <<112, 97, 115, 32>>,            \* 'pas '
    <<113, 117, 101, 32>>,           \* 'que '
    <<117, 110, 101, 32>>,           \* 'une '
    <<116, 114, 232, 115, 32>>,      \* 'tres ' with e grave
    <<97, 118, 101, 99, 32>>,        \* 'avec '
    <<112, 111, 117, 114, 32>>,      \* 'pour '
    <<100, 97, 110, 115, 32>> >>     \* 'dans '

en_markers == <<
    <<116, 104, 101, 32>>,           \* 'the '
    <<97, 110, 100, 32>>,            \* 'and '
    <<116, 104, 105, 115, 32>>,      \* 'this '
    <<116, 104, 97, 116, 32>>,       \* 'that '
    <<118, 101, 114, 121, 32>>,      \* 'very '
    <<110, 111, 116, 32>>,           \* 'not '
    <<103, 111, 111, 100, 32>>,      \* 'good '
    <<119, 97, 115, 32>>,            \* 'was '
    <<104, 97, 118, 101, 32>>,       \* 'have '
    <<121, 111, 117, 32>> >>         \* 'you '

\* sum(m in t for m in markers): each marker of the list adds 1 when it
\* occurs in t at least once
MarkerScore(markers, t) ==
    Cardinality({k \in 1..Len(markers) : Contains(markers[k], t)})

\* variant: a text with as many Arabic as Latin letters is Arabic
detect_lang_geq(text) ==
    LET arabic == CountChars(text, IsArabic)
        latin  == CountChars(text, IsLatin)
        t      == lower(text)
    IN IF arabic >= latin THEN "Arabic"
       ELSE IF MarkerScore(fr_markers, t) >= MarkerScore(en_markers, t)
            THEN "French"
            ELSE "English"

\* variant: equal marker scores give English
detect_lang_strict(text) ==
    LET arabic == CountChars(text, IsArabic)
        latin  == CountChars(text, IsLatin)
        t      == lower(text)
    IN IF arabic > latin THEN "Arabic"
       ELSE IF MarkerScore(fr_markers, t) > MarkerScore(en_markers, t)
            THEN "French"
            ELSE "English"

detect_lang(text) ==
    LET arabic == CountChars(text, IsArabic)
        latin  == CountChars(text, IsLatin)
        t      == lower(text)
    IN IF arabic > latin THEN "Arabic"
       ELSE IF MarkerScore(fr_markers, t) >= MarkerScore(en_markers, t)
            THEN "French"
            ELSE "English"

(***************************************************************************)
(* top_words                                                               *)
(***************************************************************************)
STOPWORDS == {
    <<97, 112, 112, 108, 105, 99, 97, 116, 105, 111, 110>>,
    <<97, 112, 112>>,
    <<121, 97, 115, 115, 105, 114>>,
    <<108, 101, 115>>,
    <<100, 101, 115>>,
    <<101, 115, 116>>,
    <<117, 110, 101>>,
    <<112, 97, 115>>,
    <<113, 117, 101>>,
    <<112, 108, 117, 115>>,
    <<116, 114, 232, 115>>,
    <<98, 105, 101, 110>>,
    <<112, 111, 117, 114>>,
    <<115, 117, 114>>,
    <<97, 118, 101, 99>>,
    <<100, 97, 110, 115>>,
    <<112, 97, 114>>,
    <<113, 117, 105>>,
    <<99, 101>>,
    <<116, 111, 117, 116>>,
    <<109, 97, 105, 115>>,
    <<99, 101, 115, 116>>,
    <<99, 101, 116, 116, 101>>,
    <<99, 111, 109, 109, 101>>,
    <<97, 118, 111, 105, 114>>,
    <<116, 104, 101>>,
    <<97, 110, 100>>,
    <<105, 115>>,
    <<105, 116>>,
    <<116, 111>>,
    <<111, 102>>,
    <<105, 110>>,
    <<102, 111, 114>>,
    <<111, 110>>,
    <<97, 114, 101>>,
    <<116, 104, 105, 115>>,
    <<116, 104, 97, 116>>,
    <<110, 111, 116>>,
    <<109, 121>>,
    <<109, 101>>,
    <<97, 110>>,
    <<98, 101>>,
    <<99, 97, 110>>,
    <<121, 111, 117>>,
    <<121, 111, 117, 114>>,
    <<104, 97, 118, 101>>,
    <<104, 97, 100>>,
    <<119, 97, 115>>,
    <<98, 117, 116>>,
    <<106, 117, 115, 116>>,
    <<97, 108, 108>>,
    <<119, 104, 101, 110>>,
    <<116, 104, 101, 121>>,
    <<100, 111, 110, 116>>,
    <<101, 118, 101, 110>>,
    <<103, 101, 116>>,
    <<103, 111, 116>>,
    <<98, 101, 101, 110>>,
    <<104, 97, 115>>,
    <<97, 117, 115, 115, 105>>,
    <<108, 101, 117, 114>>,
    <<108, 101, 117, 114, 115>>,
    <<110, 111, 117, 115>>,
    <<118, 111, 117, 115>>,
    <<105, 108, 115>>,
    <<101, 108, 108, 101, 115>>,
    <<109, 234, 109, 101>>,
    <<97, 112, 114, 232, 115>>,
    <<97, 118, 97, 110, 116>>,
    <<101, 110, 99, 111, 114, 101>>,
    <<116, 111, 117, 106, 111, 117, 114, 115>>,
    <<106, 97, 109, 97, 105, 115>>,
    <<114, 105, 101, 110>>,
    <<116, 114, 111, 112>>,
    <<97, 115, 115, 101, 122>>,
    <<112, 101, 117>>,
    <<98, 101, 97, 117, 99, 111, 117, 112>>,
    <<109, 111, 105, 110, 115>>,
    <<102, 111, 105, 115>>,
    <<102, 97, 105, 116>>,
    <<102, 97, 105, 114, 101>>,
    <<115, 111, 110, 116>>,
    <<234, 116, 114, 101>>,
    <<97, 108, 108, 101, 114>>,
    <<118, 111, 105, 114>>,
    <<118, 101, 110, 105, 114>>,
    <<112, 111, 117, 118, 111, 105, 114>>,
    <<118, 111, 117, 108, 111, 105, 114>>,
    <<115, 97, 118, 111, 105, 114>> }

\* variant: runs of 3 letters match too
FindWordsOf3(t) ==
    LET starts == {i \in 1..Len(t) :
                      IsLatin(t[i]) /\ (i = 1 \/ ~IsLatin(t[i - 1]))}
        stops == {j \in 1..Len(t) : ~IsLatin(t[j])} \cup {Len(t) + 1}
        EndOf(i) == (CHOOSE j \in stops : j > i /\ \A k \in stops : k > i => j <= k) - 1
        order == SortedInts(starts)
        runs == [k \in 1..Len(order) |-> SubSeq(t, order[k], EndOf(order[k]))]
    IN SelectSeq(runs, LAMBDA w : Len(w) >= 3)

\* re.findall(r'[a-zA-Z...]{4,}', t): the maximal runs of letters of the
\* class, from left to right, of which those of 4 letters or more match
FindWords(t) ==
    LET starts == {i \in 1..Len(t) :
                      IsLatin(t[i]) /\ (i = 1 \/ ~IsLatin(t[i - 1]))}
        stops == {j \in 1..Len(t) : ~IsLatin(t[j])} \cup {Len(t) + 1}
        EndOf(i) == (CHOOSE j \in stops : j > i /\ \A k \in stops : k > i => j <= k) - 1
        order == SortedInts(starts)
        runs == [k \in 1..Len(order) |-> SubSeq(t, order[k], EndOf(order[k]))]
    IN SelectSeq(runs, LAMBDA w : Len(w) >= 4)

\* the list `words` built by the loop over the series
RECURSIVE AllWords(_)
AllWords(series) ==
    IF series = <<>> THEN <<>>
    ELSE SelectSeq(FindWords(lower(Head(series))),
                   LAMBDA w : w \notin STOPWORDS)
         \o AllWords(Tail(series))

\* the keys of Counter(words), in order of first insertion
RECURSIVE FirstSeen(_, _)
FirstSeen(ws, seen) ==
    IF ws = <<>> THEN seen
    ELSE IF Head(ws) \in Range(seen) THEN FirstSeen(Tail(ws), seen)
         ELSE FirstSeen(Tail(ws), Append(seen, Head(ws)))

Occurrences(ws, w) == Cardinality({i \in 1..Len(ws) : ws[i] = w})

\* Counter(words).most_common(n): sorted by count, largest first, equal
\* counts in insertion order
top_words(series, n) ==
    LET found  == AllWords(series)
        keys   == FirstSeen(found, <<>>)
        pairs  == [k \in 1..Len(keys) |->
                     [word |-> keys[k], count |-> Occurrences(found, keys[k])]]
    IN Prefix(StableSort(pairs, LAMBDA a, b : a.count > b.count), n)

(***************************************************************************)
(* Dates                                                                   *)
(***************************************************************************)
NaT == [year |-> 0, month |-> 0, day |-> 0]

IsDigit(c) == c \in 48..57

\* pd.to_datetime(..., errors='coerce') on one cell: an ISO date
\* YYYY-MM-DD parses, anything else (a missing cell included) gives NaT
to_datetime(s) ==
    IF /\ Len(s) = 10
       /\ s[5] = 45 /\ s[8] = 45
       /\ \A i \in {1, 2, 3, 4, 6, 7, 9, 10} : IsDigit(s[i])
    THEN LET y == 1000 * (s[1] - 48) + 100 * (s[2] - 48) + 10 * (s[3] - 48) + (s[4] - 48)
             m == 10 * (s[6] - 48) + (s[7] - 48)
             d == 10 * (s[9] - 48) + (s[10] - 48)
         IN IF m \in 1..12 /\ d \in 1..31 /\ y >= 1
            THEN [year |-> y, month |-> m, day |-> d]
            ELSE NaT
    ELSE NaT

\* Timestamp.strftime('%Y-%m-%d')
strftime(ts) ==
    zfill(Str(ts.year), 4) \o <<45>> \o zfill(Str(ts.month), 2) \o <<45>>
        \o zfill(Str(ts.day), 2)

\* str(Timestamp): 'YYYY-MM-DD 00:00:00', and 'NaT' for a null date
StrOfDate(ts) ==
    IF ts = NaT THEN <<78, 97, 84>>
    ELSE strftime(ts) \o <<32, 48, 48, 58, 48, 48, 58, 48, 48>>

DateLeq(a, b) ==
    \/ a.year < b.year
    \/ a.year = b.year /\ a.month < b.month
    \/ a.year = b.year /\ a.month = b.month /\ a.day <= b.day

(***************************************************************************)
(* Ratings and sentiment                                                   *)
(***************************************************************************)
\* an integer number of stars in the fixed-point encoding of ratings
Stars(k) == 2 * k

\* float('nan'): an empty cell of a numeric column, and an undefined mean
NaN == -1
\* a cell of a numeric column whose text is not a number, such as 'abc'
NotNumber == -2

\* r >= k and r <= k on floats: both are False when r is nan
Geq(r, k) == r # NaN /\ r >= k
Leq(r, k) == r # NaN /\ r <= k

\* variant: 4 stars is not Positive
SentimentStrict(r) ==
    IF r # NaN /\ r > Stars(4) THEN "Positive"
    ELSE IF Leq(r, Stars(2)) THEN "Negative"
    ELSE "Neutral"

\* the lambda applied to df['rating']
Sentiment(r) ==
    IF Geq(r, Stars(4)) THEN "Positive"
    ELSE IF Leq(r, Stars(2)) THEN "Negative"
    ELSE "Neutral"

\* int(row['rating'])
IntOfRating(r) == r \div 2

rating_dist(sub) ==
    [r \in 1..5 |-> Len(SelectSeq(sub, LAMBDA row : row.rating = Stars(r)))]

\* Series.mean() of the ratings of rows, rounded to 2 decimals, in
\* hundredths: the mean skips the nan cells and is nan when nothing is left
MeanRating100(rows) ==
    LET valid == SelectSeq(rows, LAMBDA row : row.rating # NaN)
    IN IF valid = <<>> THEN NaN
       ELSE RoundDiv(50 * SumSeq([i \in 1..Len(valid) |-> valid[i].rating]),
                     Len(valid))

(***************************************************************************)
(* Sampling                                                                *)
(***************************************************************************)
\* one step of the pseudo-random generator.  The generator of the library is
\* not reproduced bit for bit: what the model keeps is that the draw is a
\* function of random_state and of the number of rows, and of nothing else.
NextRandom(x) == (75 * x + 74) % 65537

\* a permutation of the sequence rem, drawn element by element
RECURSIVE Shuffle(_, _)
Shuffle(rem, x) ==
    IF rem = <<>> THEN <<>>
    ELSE LET x2 == NextRandom(x)
             k  == (x2 % Len(rem)) + 1
         IN <<rem[k]>> \o
            Shuffle(SubSeq(rem, 1, k - 1) \o SubSeq(rem, k + 1, Len(rem)), x2)

\* variant: sampling with replacement
RECURSIVE Draws(_, _, _)
Draws(len, n, x) ==
    IF n = 0 THEN <<>>
    ELSE <<(NextRandom(x) % len) + 1>> \o Draws(len, n - 1, NextRandom(x))
SampleIndexReplace(len, n, seed) == Draws(len, n, seed)

\* variant: the generator is not seeded, each run draws differently
SampleIndexUnseeded(len, n, seed) ==
    Prefix(Shuffle([i \in 1..len |-> i], seed + run), n)

\* the index labels of df.sample(n, random_state=seed), n <= len(df):
\* n rows without replacement
SampleIndex(len, n, seed) == Prefix(Shuffle([i \in 1..len |-> i], seed), n)

(***************************************************************************)
(* The input file                                                          *)
(***************************************************************************)
Rep(c, n) == [i \in 1..n |-> c]

Ali        == <<65, 108, 105>>                                  \* 'Ali'
Anonymous  == <<65, 110, 111, 110, 121, 109, 111, 117, 115>>    \* 'Anonymous'
LongAuthor == Rep(66, AUTHOR_MAX + 1)
LongText   == Rep(120, TEXT_MAX + 1)
Good       == <<103, 111, 111, 100>>                            \* 'good'
Date2023   == <<50, 48, 50, 51, 45, 48, 49, 45, 48, 53>>        \* '2023-01-05'
Date2024   == <<50, 48, 50, 52, 45, 49, 50, 45, 51, 49>>        \* '2024-12-31'
BadDate    == <<110, 47, 97>>                                   \* 'n/a'

Years     == {2023, 2024}
NowYears  == {2024, 2025}
Months    == {1, 12, 13}
\* 2, 3, 3.5, 4, 5 and 6 stars
Ratings   == {Stars(2), Stars(3), 7, Stars(4), Stars(5), Stars(6)}

\* the vocabulary of the texts given to detect_lang
Vocabulary == {
    <<116, 104, 101, 32>>,           \* 'the '
    <<110, 111, 116, 32>>,           \* 'not '
    <<108, 101, 32>>,                \* 'le '
    <<76, 65, 32>>,                  \* 'LA '
    <<1593, 1593, 1593, 32>>,        \* three Arabic letters and a space
    \* 'Ana nehwes app mliha bezaf'
    <<65, 110, 97, 32, 110, 101, 104, 119, 101, 115, 32, 97, 112, 112, 32,
      109, 108, 105, 104, 97, 32, 98, 101, 122, 97, 102>> }

RECURSIVE TextsOf(_)
TextsOf(n) ==
    IF n = 0 THEN {<<>>}
    ELSE LET shorter == TextsOf(n - 1)
         IN shorter \cup {t \o w : t \in shorter, w \in Vocabulary}

Texts == TextsOf(MaxWords)

Row0 == [author |-> Ali, rating |-> Stars(4), text |-> Good,
         review_date |-> Date2023, review_year |-> 2023, review_month |-> 1,
         thumbs_up_count |-> 0, text_length |-> 4]

\* texts of the three languages
TextEnglish == <<116, 104, 101, 32, 97, 112, 112>>              \* 'the app'
TextFrench  == <<108, 101, 32, 116, 97, 120, 105>>              \* 'le taxi'
TextArabic  == <<1593, 1593, 1593>>

\* families of rows: each varies some columns and keeps the others
FamRating ==
    {[Row0 EXCEPT !.rating = r] : r \in Ratings}
FamYearRating ==
    {[Row0 EXCEPT !.review_year = y, !.rating = r] :
        y \in Years, r \in {Stars(2), Stars(3), Stars(5)}}
FamCalendar ==
    {[Row0 EXCEPT !.review_year = y, !.review_month = m] :
        y \in Years, m \in Months}
FamThumbs ==
    {[Row0 EXCEPT !.thumbs_up_count = d[1], !.rating = d[2]] :
        d \in {<<0, Stars(1)>>, <<1, Stars(1)>>, <<1, Stars(5)>>, <<2, Stars(5)>>}}
FamText ==
    {[Row0 EXCEPT !.author = a, !.review_date = d[1], !.text = d[2],
                  !.text_length = d[3], !.rating = d[4]] :
        a \in {NA, LongAuthor},
        d \in {<<Date2024, NA, 0, Stars(1)>>, <<BadDate, LongText, TEXT_MAX + 1, Stars(3)>>}}
FamLang ==
    {[Row0 EXCEPT !.text = d[1], !.rating = d[2]] :
        d \in {<<TextEnglish, Stars(2)>>, <<TextEnglish, Stars(4)>>,
               <<TextFrench, Stars(4)>>, <<TextArabic, Stars(2)>>}}

\* texts given to top_words
\* 'Taxi good taxi'
TextTaxi == <<84, 97, 120, 105, 32, 103, 111, 111, 100, 32, 116, 97,
              120, 105>>
\* 'That TRES bien Super taxi', the E with a grave accent
TextStops == <<84, 104, 97, 116, 32, 84, 82, 200, 83, 32, 98, 105, 101,
               110, 32, 83, 117, 112, 101, 114, 32, 116, 97, 120, 105>>
\* 'good-driver cab'
TextDriver == <<103, 111, 111, 100, 45, 100, 114, 105, 118, 101, 114,
                32, 99, 97, 98>>
\* 21 words of one occurrence each: 'aaaa bbbb ... uuuu'
TextMany == [i \in 1..104 |-> IF i % 5 = 0 THEN 32 ELSE 97 + ((i - 1) \div 5)]

FamWords ==
    {[Row0 EXCEPT !.text = d[1], !.rating = d[2]] :
        d \in {<<TextTaxi, Stars(5)>>, <<TextTaxi, Stars(1)>>,
               <<TextStops, Stars(5)>>, <<TextDriver, Stars(1)>>}}
\* the text of 21 words between two records of the family
ManyWordsTables ==
    {<<a, [Row0 EXCEPT !.text = TextMany, !.rating = Stars(5)], b>> :
        a, b \in FamWords}

TablesOf(fam) == UNION {[1..n -> fam] : n \in 0..MaxRows}

\* TOP_N - 1 identical rows, so that a few more rows reach the cut-off
Filler == [i \in 1..(TOP_N - 1) |-> [Row0 EXCEPT !.thumbs_up_count = 1]]

\* one text in a review of each sentiment
LangTable(t) ==
    << [Row0 EXCEPT !.text = t, !.rating = Stars(5)],
       [Row0 EXCEPT !.text = t, !.rating = Stars(3)],
       [Row0 EXCEPT !.text = t, !.rating = Stars(1)] >>

\* tables in which one or two records have an empty rating cell, in months
\* around those of the rated records; the 12 records before them have more
\* thumbs up
UnratedMonths == {<<2022, 6>>, <<2023, 1>>, <<2023, 6>>, <<2023, 7>>, <<2024, 1>>}
Unrated(ym) ==
    [Row0 EXCEPT !.rating = NaN, !.review_year = ym[1], !.review_month = ym[2]]
UnratedTables ==
    {Filler \o <<[Row0 EXCEPT !.rating = Stars(1), !.review_month = 12,
                              !.thumbs_up_count = 1]>> \o t :
        t \in {<<Unrated(a)>> : a \in UnratedMonths}
              \cup {<<Unrated(a), Unrated(b)>> : a, b \in UnratedMonths}}

\* the five records of the end-to-end example, rated 5, 4, 3, 2, 1
ExampleTable == [i \in 1..5 |-> [Row0 EXCEPT !.rating = Stars(6 - i)]]

InputTables ==
    {ExampleTable} \cup UnratedTables \cup
    TablesOf(FamRating) \cup TablesOf(FamYearRating) \cup TablesOf(FamCalendar)
    \cup TablesOf(FamText) \cup TablesOf(FamLang) \cup TablesOf(FamThumbs)
    \cup TablesOf(FamWords) \cup ManyWordsTables
    \cup {Filler \o t : t \in TablesOf(FamThumbs)}
    \cup {t \o Filler : t \in TablesOf(FamThumbs)}
    \cup {LangTable(t) : t \in Texts}

(***************************************************************************)
(* Start of a run                                                          *)
(***************************************************************************)
Unset == <<>>

\* the sections of the script, in order
Sections == <<"load", "derive", "kpi", "ratings", "temporal", "heatmap",
              "stacked", "words", "top", "lang", "pack", "write", "done">>
SectionNo(p) == CHOOSE i \in 1..Len(Sections) : Sections[i] = p
\* the run has completed section s
Passed(s) == pc # "failed" /\ SectionNo(pc) > SectionNo(s)

ScriptStart ==
    /\ pc = "load" /\ err = ""
    /\ now_year = 0
    /\ df = Unset /\ meta = Unset /\ rating_all = Unset /\ full_years = Unset
    /\ rating_by_year = Unset /\ yearly = Unset /\ monthly = Unset
    /\ heatmap = Unset /\ stacked = Unset /\ words = Unset
    /\ top_reviews = Unset /\ sample = Unset /\ languages = Unset
    /\ DATA = Unset

\* the columns the script reads
Columns == {"author", "rating", "text", "review_date", "review_year",
            "review_month", "thumbs_up_count", "text_length"}

NoFile == [exists |-> FALSE, readable |-> FALSE, columns |-> {}, rows |-> <<>>]
Unreadable == [exists |-> TRUE, readable |-> FALSE, columns |-> {}, rows |-> <<>>]
\* a readable file with every column and the rows t
File(t) == [exists |-> TRUE, readable |-> TRUE, columns |-> Columns, rows |-> t]

\* a table in which the column col is absent
Without(t, col) ==
    [exists |-> TRUE, readable |-> TRUE, columns |-> Columns \ {col},
     rows |-> [i \in 1..Len(t) |-> [f \in DOMAIN t[i] \ {col} |-> t[i][f]]]]

\* files the script cannot process: no file, no permission, a column that
\* is absent, a cell of a numeric column that is empty or not a number
DefectiveFiles ==
    {NoFile, Unreadable}
    \cup {Without(ExampleTable, col) : col \in Columns}
    \cup {File(<<Row0, [Row0 EXCEPT ![col] = v]>>) :
            col \in {"review_year", "review_month", "rating"},
            v \in {NaN, NotNumber}}

\* OUT_PATH before the run: absent, or the document of an earlier run
NoOutput == [exists |-> FALSE, content |-> Unset]
OldOutput == [exists |-> TRUE,
              content |-> [template |-> "Yassir Reviews - NLP Dashboard",
                           D |-> Unset]]

\* ---- the static markup of the document ----
\* the ids of the pages, as the argument of showPage in the onclick of the
\* navigation items (lines 324-332) and after 'page-' in the page elements
PageId ==
    [overview  |-> <<111, 118, 101, 114, 118, 105, 101, 119>>,
     ratings   |-> <<114, 97, 116, 105, 110, 103, 115>>,
     trends    |-> <<116, 114, 101, 110, 100, 115>>,
     words     |-> <<119, 111, 114, 100, 115>>,
     reviews   |-> <<114, 101, 118, 105, 101, 119, 115>>,
     languages |-> <<108, 97, 110, 103, 117, 97, 103, 101, 115>>,
     insights  |-> <<105, 110, 115, 105, 103, 104, 116, 115>>]
Pages == DOMAIN PageId

\* the onclick attribute of the navigation item of page n: showPage('id')
onclick(n) ==
    <<115, 104, 111, 119, 80, 97, 103, 101, 40, 39>> \o PageId[n] \o <<39, 41>>

ALL == <<97, 108, 108>>                                          \* 'all'
AllYears == <<65, 108, 108, 32, 89, 101, 97, 114, 115>>          \* 'All Years'
Tabs == {"all", "pos", "neg"}

\* the document before it is opened: the classes and texts of the markup
NotOpened ==
    /\ page_script = "none"
    /\ D = Unset
    /\ active = [page |-> {"overview"}, nav |-> {"overview"},
                 ratings |-> {ALL}, trends |-> {"all"}, words |-> {"all"},
                 reviews |-> {"all"}]
    /\ sidebar_open = FALSE
    /\ overlay_show = FALSE
    /\ charts = Unset
    /\ html = [rating_year_badge |-> AllYears, year_filter_btns |-> <<>>,
               timeline_chart |-> <<>>, wordcloud |-> <<>>,
               review_list |-> <<>>, lang_bars |-> <<>>]
    /\ last_call = [showPage |-> <<>>, filterRatings |-> <<>>, switchTrend |-> "",
               switchCloud |-> "", filterReviews |-> ""]

InitWith(files, outputs) ==
    /\ csv_file \in files
    /\ out_file \in outputs
    /\ run = 1
    /\ prev = Unset
    /\ round_nan = "unknown"
    /\ ScriptStart
    /\ NotOpened

Init ==
    \/ InitWith(DefectiveFiles \cup {File(t) : t \in InputTables}, {NoOutput})
    \/ InitWith(DefectiveFiles \cup {File(ExampleTable)}, {OldOutput})

(***************************************************************************)
(* The script, section by section                                          *)
(***************************************************************************)
\* the exception propagates: the script has no handler, the process ends
Raise(e) == pc' = "failed" /\ err' = e

Goto(p) == pc' = p /\ err' = err

\* rows of a table that satisfy a boolean mask
Where(rows, P(_)) == SelectSeq(rows, P)

\* variant: adding a column resets the rating of the row
WithColumnResetting(row, name, value) ==
    (name :> value) @@ [row EXCEPT !.rating = Stars(3)]

\* add a column to a row
WithColumn(row, name, value) == (name :> value) @@ row

\* ---- LOAD ----
LoadRow(r) ==
    [r EXCEPT !.review_date = to_datetime(@),
              !.text = IF @ = NA THEN <<>> ELSE @]

\* df[col] on a frame read from the file
HasColumn(col) == col \in csv_file.columns

\* Series.astype(int) succeeds: no cell is empty or the text of a non-number
CastsToInt(col) ==
    \A i \in 1..Len(csv_file.rows) : csv_file.rows[i][col] \notin {NaN, NotNumber}

\* the exception raised by the LOAD section, statement by statement, "" if none
LoadError ==
    IF ~csv_file.exists THEN "FileNotFoundError"
    ELSE IF ~csv_file.readable THEN "PermissionError"
    ELSE IF ~HasColumn("review_date") THEN "KeyError: review_date"
    ELSE IF ~HasColumn("review_year") THEN "KeyError: review_year"
    ELSE IF ~CastsToInt("review_year") THEN "ValueError: astype(int)"
    ELSE IF ~HasColumn("review_month") THEN "KeyError: review_month"
    ELSE IF ~CastsToInt("review_month") THEN "ValueError: astype(int)"
    ELSE IF ~HasColumn("text") THEN "KeyError: text"
    ELSE ""

Load ==
    /\ pc = "load"
    /\ IF LoadError # ""
       THEN Raise(LoadError) /\ df' = df
       ELSE /\ df' = [i \in 1..Len(csv_file.rows) |-> LoadRow(csv_file.rows[i])]
            /\ Goto("derive")
    /\ UNCHANGED browser
    /\ UNCHANGED <<csv_file, out_file, run, prev, round_nan, now_year, meta,
                   rating_all, full_years, rating_by_year, yearly, monthly,
                   heatmap, stacked, words, top_reviews, sample, languages, DATA>>

\* ---- DERIVED COLUMNS ----
Derive ==
    /\ pc = "derive"
    /\ IF ~HasColumn("rating")
       THEN Raise("KeyError: rating") /\ df' = df
       ELSE IF \E i \in 1..Len(df) : df[i].rating = NotNumber
       THEN \* the column holds strings: r >= 4 compares a str with an int
            Raise("TypeError") /\ df' = df
       ELSE /\ df' = [i \in 1..Len(df) |->
                        WithColumn(df[i], "sentiment", Sentiment(df[i].rating))]
            /\ Goto("kpi")
    /\ UNCHANGED browser
    /\ UNCHANGED <<csv_file, out_file, run, prev, round_nan, now_year, meta,
                   rating_all, full_years, rating_by_year, yearly, monthly,
                   heatmap, stacked, words, top_reviews, sample, languages, DATA>>

\* ---- KPI ----
Group(s) == Where(df, LAMBDA row : row.sentiment = s)

\* round(Series.mean()) of text_length over a non-empty group
AvgLen(rows) ==
    RoundDiv(SumSeq([i \in 1..Len(rows) |-> rows[i].text_length]), Len(rows))

ValidDates == {df[i].review_date : i \in 1..Len(df)} \ {NaT}
\* Series.min() / Series.max() of the dates, nulls skipped
DateMin == CHOOSE d \in ValidDates : \A e \in ValidDates : DateLeq(d, e)
DateMax == CHOOSE d \in ValidDates : \A e \in ValidDates : DateLeq(e, d)

KpiRecord(len_of_empty) ==
    LET total == Len(df)
        pos == Len(Where(df, LAMBDA row : Geq(row.rating, Stars(4))))
        neg == Len(Where(df, LAMBDA row : Leq(row.rating, Stars(2))))
        neu == Len(Where(df, LAMBDA row : row.rating = Stars(3)))
        LenOf(s) == IF Group(s) = <<>> THEN len_of_empty ELSE AvgLen(Group(s))
    IN [total |-> total,
        avg_rating |-> MeanRating100(df),
        pct_positive |-> RoundDiv(1000 * pos, total),
        pct_negative |-> RoundDiv(1000 * neg, total),
        pct_neutral |-> RoundDiv(1000 * neu, total),
        count_pos |-> pos, count_neg |-> neg, count_neu |-> neu,
        date_min |-> strftime(DateMin), date_max |-> strftime(DateMax),
        n_years |-> Cardinality({df[i].review_year : i \in 1..Len(df)}),
        avg_len_pos |-> LenOf("Positive"),
        avg_len_neu |-> LenOf("Neutral"),
        avg_len_neg |-> LenOf("Negative")]

SomeGroupEmpty == \E s \in {"Positive", "Neutral", "Negative"} : Group(s) = <<>>

Kpi ==
    /\ pc = "kpi"
    /\ IF Len(df) = 0
       THEN \* len(...) / total
            Raise("ZeroDivisionError") /\ UNCHANGED <<meta, round_nan>>
       ELSE IF ValidDates = {}
       THEN \* NaT.strftime
            Raise("ValueError: NaT strftime") /\ UNCHANGED <<meta, round_nan>>
       ELSE IF ~HasColumn("text_length")
       THEN Raise("KeyError: text_length") /\ UNCHANGED <<meta, round_nan>>
       ELSE IF SomeGroupEmpty
       THEN \* round(nan): an int conversion that raises, or nan, by build
            \/ /\ round_nan \in {"unknown", "raises"}
               /\ round_nan' = "raises"
               /\ Raise("ValueError: round(nan)") /\ meta' = meta
            \/ /\ round_nan \in {"unknown", "nan"}
               /\ round_nan' = "nan"
               /\ meta' = KpiRecord(NaN)
               /\ Goto("ratings")
       ELSE /\ meta' = KpiRecord(NaN)
            /\ Goto("ratings")
            /\ round_nan' = round_nan
    /\ UNCHANGED browser
    /\ UNCHANGED <<csv_file, out_file, run, prev, now_year, df,
                   rating_all, full_years, rating_by_year, yearly, monthly,
                   heatmap, stacked, words, top_reviews, sample, languages, DATA>>

\* ---- RATINGS DISTRIBUTION ----
ObservedYears == SortedInts({df[i].review_year : i \in 1..Len(df)})

\* variant: the group of a year also takes the reviews of later years
InYearOnward(y) == Where(df, LAMBDA row : row.review_year >= y)

InYear(y) == Where(df, LAMBDA row : row.review_year = y)

\* variant: the current year counts as a full year
FullYearsInclusive(now) == SelectSeq(ObservedYears, LAMBDA y : y <= now)

FullYears(now) == SelectSeq(ObservedYears, LAMBDA y : y < now)

\* the clock does not run backwards between two runs
ClockYears == IF run = 1 THEN NowYears ELSE {y \in NowYears : y >= prev.year}

RatingsDist ==
    /\ pc = "ratings"
    /\ \E now \in ClockYears :
         /\ now_year' = now
         /\ rating_all' = rating_dist(df)
         /\ full_years' = FullYears(now)
         /\ rating_by_year' =
               [k \in 1..Len(FullYears(now)) |->
                  [key |-> Str(FullYears(now)[k]),
                   value |-> rating_dist(InYear(FullYears(now)[k]))]]
    /\ Goto("temporal")
    /\ UNCHANGED browser
    /\ UNCHANGED <<csv_file, out_file, run, prev, round_nan, df, meta,
                   yearly, monthly, heatmap, stacked, words, top_reviews,
                   sample, languages, DATA>>

\* ---- YEARLY / MONTHLY VOLUMES ----
\* a pandas Series is a sequence of [key, value] in index order
Keys(series) == [k \in 1..Len(series) |-> series[k].key]
Values(series) == [k \in 1..Len(series) |-> series[k].value]

\* sorted(set) for a set of strings
RECURSIVE SortedStrs(_)
SortedStrs(S) ==
    IF S = {} THEN <<>>
    ELSE LET m == CHOOSE x \in S : \A y \in S \ {x} : StrLess(x, y)
         IN <<m>> \o SortedStrs(S \ {m})

\* variant: the month is not padded
YmOfUnpadded(row) ==
    Str(row.review_year) \o <<45>> \o Str(row.review_month)

\* the value of column 'ym' for a row
YmOf(row) ==
    Str(row.review_year) \o <<45>> \o zfill(Str(row.review_month), 2)

\* rows.groupby('ym').size(): one entry per key present, keys sorted
GroupSize(rows) ==
    LET keys == SortedStrs({rows[i].ym : i \in 1..Len(rows)})
    IN [k \in 1..Len(keys) |->
          [key |-> keys[k],
           value |-> Len(Where(rows, LAMBDA row : row.ym = keys[k]))]]

\* rows.groupby('ym')['rating'].mean()
GroupMean(rows) ==
    LET keys == SortedStrs({rows[i].ym : i \in 1..Len(rows)})
    IN [k \in 1..Len(keys) |->
          [key |-> keys[k],
           value |-> MeanRating100(Where(rows, LAMBDA row : row.ym = keys[k]))]]

\* variant: a key absent from the series gets 1
ReindexFillOne(series, index, fill) ==
    [k \in 1..Len(index) |->
       [key |-> index[k],
        value |-> IF \E j \in 1..Len(series) : series[j].key = index[k]
                  THEN series[CHOOSE j \in 1..Len(series) : series[j].key = index[k]].value
                  ELSE 1]]

\* series.reindex(index, fill_value=fill)
Reindex(series, index, fill) ==
    [k \in 1..Len(index) |->
       [key |-> index[k],
        value |-> IF \E j \in 1..Len(series) : series[j].key = index[k]
                  THEN series[CHOOSE j \in 1..Len(series) : series[j].key = index[k]].value
                  ELSE fill]]

\* variant: a missing value becomes 0
ffillZero(values, last) ==
    [k \in 1..Len(values) |-> IF values[k] = NaN THEN 0 ELSE values[k]]

\* Series.ffill() on the values: a missing value takes the last value before it
RECURSIVE ffill(_, _)
ffill(values, last) ==
    IF values = <<>> THEN <<>>
    ELSE IF Head(values) = NaN THEN <<last>> \o ffill(Tail(values), last)
         ELSE <<Head(values)>> \o ffill(Tail(values), Head(values))

\* the record 'monthly' computed from the table with its column 'ym'
Monthly(table) ==
    LET monthly_all == GroupSize(table)
        index == Keys(monthly_all)
        monthly_pos == Reindex(GroupSize(Where(table,
                           LAMBDA row : row.sentiment = "Positive")), index, 0)
        monthly_neg == Reindex(GroupSize(Where(table,
                           LAMBDA row : row.sentiment = "Negative")), index, 0)
        monthly_rating == Reindex(GroupMean(table), index, NaN)
    IN [labels |-> index,
        all |-> Values(monthly_all),
        pos |-> Values(monthly_pos),
        neg |-> Values(monthly_neg),
        avg_rating |-> ffill(Values(monthly_rating), NaN)]

Temporal ==
    /\ pc = "temporal"
    /\ yearly' = [labels |-> [k \in 1..Len(ObservedYears) |-> Str(ObservedYears[k])],
                  counts |-> [k \in 1..Len(ObservedYears) |-> Len(InYear(ObservedYears[k]))]]
    /\ df' = [i \in 1..Len(df) |-> WithColumn(df[i], "ym", YmOf(df[i]))]
    /\ monthly' = Monthly(df')
    /\ Goto("heatmap")
    /\ UNCHANGED browser
    /\ UNCHANGED <<csv_file, out_file, run, prev, round_nan, now_year, meta,
                   rating_all, full_years, rating_by_year, heatmap, stacked,
                   words, top_reviews, sample, languages, DATA>>

\* ---- HEATMAP ----
hm_months == [i \in 1..12 |-> i]

\* round((val ** 0.5) * 1.5, 1) in tenths: the integer nearest to sqrt(225 * val)
Radius(val) ==
    LET n == 225 * val
        s == CHOOSE t \in 0..(15 * val) : t * t <= n /\ n < (t + 1) * (t + 1)
    IN IF n - s * s <= s THEN s ELSE s + 1

\* the cells in the order of the two nested loops, yi and mi counted from 0
HmData ==
    LET hm_years == ObservedYears
        Val(yr, mo) == Len(Where(df, LAMBDA row :
                               row.review_year = yr /\ row.review_month = mo))
        Cell(k) == LET yi == (k - 1) \div 12
                       mi == (k - 1) % 12
                       val == Val(hm_years[yi + 1], hm_months[mi + 1])
                   IN [x |-> yi, y |-> mi, r |-> Radius(val), v |-> val]
    IN SelectSeq([k \in 1..(12 * Len(hm_years)) |-> Cell(k)], LAMBDA c : c.v > 0)

Heatmap ==
    /\ pc = "heatmap"
    /\ heatmap' = [data |-> HmData,
                   year_labels |-> [k \in 1..Len(ObservedYears) |-> Str(ObservedYears[k])]]
    /\ Goto("stacked")
    /\ UNCHANGED browser
    /\ UNCHANGED <<csv_file, out_file, run, prev, round_nan, now_year, df, meta,
                   rating_all, full_years, rating_by_year, yearly, monthly,
                   stacked, words, top_reviews, sample, languages, DATA>>

\* ---- STACKED BAR ----
Stacked ==
    /\ pc = "stacked"
    /\ stacked' =
         [years |-> [k \in 1..Len(full_years) |-> Str(full_years[k])],
          by_star |-> [r \in 1..5 |->
             [key |-> Str(r),
              value |-> [k \in 1..Len(full_years) |->
                           Len(Where(InYear(full_years[k]),
                                     LAMBDA row : row.rating = Stars(r)))]]]]
    /\ Goto("words")
    /\ UNCHANGED browser
    /\ UNCHANGED <<csv_file, out_file, run, prev, round_nan, now_year, df, meta,
                   rating_all, full_years, rating_by_year, yearly, monthly,
                   heatmap, words, top_reviews, sample, languages, DATA>>

\* ---- WORD ANALYSIS ----
TextsIn(rows) == [i \in 1..Len(rows) |-> rows[i].text]

Words ==
    /\ pc = "words"
    /\ words' = [all |-> top_words(TextsIn(df), 20),
                 pos |-> top_words(TextsIn(Group("Positive")), 15),
                 neg |-> top_words(TextsIn(Group("Negative")), 15)]
    /\ Goto("top")
    /\ UNCHANGED browser
    /\ UNCHANGED <<csv_file, out_file, run, prev, round_nan, now_year, df, meta,
                   rating_all, full_years, rating_by_year, yearly, monthly,
                   heatmap, stacked, top_reviews, sample, languages, DATA>>

\* ---- TOP REVIEWS ----
\* variant: the first n rows of the frame, not sorted
nlargestUnsorted(rows, n) == Prefix(rows, n)

\* variant: keep='last', among equal values the later row comes first
nlargestKeepLast(rows, n) ==
    LET rev == [i \in 1..Len(rows) |-> rows[Len(rows) + 1 - i]]
    IN Prefix(StableSort(rev, LAMBDA a, b : a.thumbs_up_count > b.thumbs_up_count), n)

\* DataFrame.nlargest(n, 'thumbs_up_count'), keep='first': the n rows with
\* the largest value, largest first, equal values in the order of the frame
nlargest(rows, n) ==
    Prefix(StableSort(rows, LAMBDA a, b : a.thumbs_up_count > b.thumbs_up_count), n)

\* .fillna({'author': 'Anonymous', 'text': ''}) then the projection of a row
TopReview(row) ==
    LET author == IF row.author = NA THEN Anonymous ELSE row.author
        text   == IF row.text = NA THEN <<>> ELSE row.text
    IN [author |-> Prefix(author, AUTHOR_MAX),
        rating |-> IntOfRating(row.rating),
        thumbs |-> row.thumbs_up_count,
        date   |-> Prefix(StrOfDate(row.review_date), DATE_MAX),
        text   |-> Prefix(text, TEXT_MAX)]

TopReviews ==
    /\ pc = "top"
    /\ IF ~HasColumn("thumbs_up_count")
       THEN Raise("KeyError: thumbs_up_count") /\ top_reviews' = top_reviews
       ELSE IF ~HasColumn("author")
       THEN Raise("KeyError: author") /\ top_reviews' = top_reviews
       ELSE IF SelectSeq(nlargest(df, TOP_N), LAMBDA row : row.rating = NaN) # <<>>
       THEN \* int(row['rating']) on nan
            Raise("ValueError: int(nan)") /\ top_reviews' = top_reviews
       ELSE /\ LET top_reviews_raw == nlargest(df, TOP_N)
               IN top_reviews' = [k \in 1..Len(top_reviews_raw) |->
                                     TopReview(top_reviews_raw[k])]
            /\ Goto("lang")
    /\ UNCHANGED browser
    /\ UNCHANGED <<csv_file, out_file, run, prev, round_nan, now_year, df, meta,
                   rating_all, full_years, rating_by_year, yearly, monthly,
                   heatmap, stacked, words, sample, languages, DATA>>

\* ---- LANGUAGE DETECTION ----
\* df.sample(...).copy() with the column 'lang'; 'index' is the row label
Sample ==
    LET idx == SampleIndex(Len(df), Min(SAMPLE_N, Len(df)), RANDOM_STATE)
    IN [k \in 1..Len(idx) |->
          WithColumn(WithColumn(df[idx[k]], "index", idx[k]),
                     "lang", detect_lang(df[idx[k]].text))]

\* Series.value_counts(): one entry per value present, largest count first,
\* equal counts in order of first appearance
value_counts(values) ==
    LET keys == FirstSeen(values, <<>>)
        counts == [k \in 1..Len(keys) |->
                     [key |-> keys[k], value |-> Occurrences(values, keys[k])]]
    IN StableSort(counts, LAMBDA a, b : a.value > b.value)

\* variant: the mean is taken over the whole table
RowsAtAll(table, ids) == table

\* the rows of table whose index label is in ids
RowsAt(table, ids) ==
    LET at == SelectSeq([i \in 1..Len(table) |-> i], LAMBDA i : i \in ids)
    IN [k \in 1..Len(at) |-> table[at[k]]]

\* the record 'languages' computed from the labelled sample smp
Languages(smp) ==
    LET lang_counts_raw == value_counts([k \in 1..Len(smp) |-> smp[k].lang])
        lang_labels == Keys(lang_counts_raw)
        Ids(lang) == {smp[k].index : k \in {j \in 1..Len(smp) : smp[j].lang = lang}}
    IN [labels |-> lang_labels,
        counts |-> Values(lang_counts_raw),
        avg_ratings |-> [k \in 1..Len(lang_labels) |->
            IF Ids(lang_labels[k]) # {}
            THEN MeanRating100(RowsAt(df, Ids(lang_labels[k])))
            ELSE 0]]

Language ==
    /\ pc = "lang"
    /\ sample' = Sample
    /\ languages' = Languages(sample')
    /\ Goto("pack")
    /\ UNCHANGED browser
    /\ UNCHANGED <<csv_file, out_file, run, prev, round_nan, now_year, df, meta,
                   rating_all, full_years, rating_by_year, yearly, monthly,
                   heatmap, stacked, words, top_reviews, DATA>>

\* ---- PACK ALL DATA ----
Pack ==
    /\ pc = "pack"
    /\ DATA' = [meta |-> meta,
                rating_all |-> rating_all,
                rating_by_year |-> rating_by_year,
                yearly |-> yearly,
                monthly |-> monthly,
                heatmap |-> heatmap,
                stacked |-> stacked,
                words |-> words,
                top_reviews |-> top_reviews,
                languages |-> languages]
    /\ Goto("write")
    /\ UNCHANGED browser
    /\ UNCHANGED <<csv_file, out_file, run, prev, round_nan, now_year, df, meta,
                   rating_all, full_years, rating_by_year, yearly, monthly,
                   heatmap, stacked, words, top_reviews, sample, languages>>

\* ---- HTML TEMPLATE and WRITE FILE ----
\* variant: the document is also written when the run has failed
WriteAlways ==
    /\ pc \in {"write", "failed"}
    /\ out_file' = [exists |-> TRUE,
                    content |-> [template |-> "Yassir Reviews - NLP Dashboard",
                                 D |-> DATA]]
    /\ pc' = IF pc = "write" THEN "done" ELSE pc
    /\ err' = err
    /\ UNCHANGED browser
    /\ UNCHANGED <<csv_file, run, prev, round_nan, now_year, script>>

\* json.dumps(DATA) writes the keys in insertion order and every value in
\* full: the text is represented by the value it encodes
data_json(d) == d

\* the f-string: the fixed template around the data literal
HTML(d) == [template |-> "Yassir Reviews - NLP Dashboard", D |-> data_json(d)]

Write ==
    /\ pc = "write"
    /\ out_file' = [exists |-> TRUE, content |-> HTML(DATA)]
    /\ Goto("done")
    /\ UNCHANGED browser
    /\ UNCHANGED <<csv_file, run, prev, round_nan, now_year, script>>

(***************************************************************************)
(* One run of the script                                                   *)
(***************************************************************************)
Next ==
    \/ Load \/ Derive \/ Kpi \/ RatingsDist \/ Temporal \/ Heatmap \/ Stacked
    \/ Words \/ TopReviews \/ Language \/ Pack \/ Write

Spec == Init /\ [][Next]_vars

(***************************************************************************)
(* Two runs of the script on the same input file                           *)
(***************************************************************************)
\* the script is started again after a completed run: a new process, in
\* which every name of the script is unbound; the two files stay as they are
Rerun ==
    /\ pc = "done" /\ run = 1
    /\ run' = 2
    /\ prev' = [content |-> out_file.content, year |-> now_year]
    /\ pc' = "load" /\ err' = ""
    /\ now_year' = 0
    /\ df' = Unset /\ meta' = Unset /\ rating_all' = Unset /\ full_years' = Unset
    /\ rating_by_year' = Unset /\ yearly' = Unset /\ monthly' = Unset
    /\ heatmap' = Unset /\ stacked' = Unset /\ words' = Unset
    /\ top_reviews' = Unset /\ sample' = Unset /\ languages' = Unset
    /\ DATA' = Unset
    /\ UNCHANGED browser
    /\ UNCHANGED <<csv_file, out_file, round_nan>>

RerunTables == TablesOf(FamYearRating) \cup TablesOf(FamLang)

InitRerun ==
    InitWith({NoFile} \cup {File(t) : t \in RerunTables}, {NoOutput})

NextRerun == Next \/ Rerun

SpecRerun == InitRerun /\ [][NextRerun]_vars

(***************************************************************************)
(* The generated document in a browser                                     *)
(*                                                                         *)
(* The state is what the script of the document writes: the class          *)
(* 'active' / 'open' / 'show' of the elements, the data of the chart       *)
(* datasets, and the content of the elements it fills.  Colours, sizes,    *)
(* animation classes and tooltips are presentation and are not kept.       *)
(***************************************************************************)
\* Number.toFixed on num / den in the unit of the last digit kept: the
\* nearest integer, a half goes up
toFixed(num, den) == (2 * num + den) \div (2 * den)

\* obj[key] of a JSON object written from a dict
Lookup(obj, key) ==
    obj[CHOOSE k \in 1..Len(obj) : obj[k].key = key].value

\* variant: the monthly means are handed over as they are
rollingCopy(a) == a

\* const rolling: the mean of a month and its two neighbours, toFixed(2);
\* the two ends are copied, and nan spreads to the three means it enters
rolling(a) ==
    [i \in 1..Len(a) |->
        IF i = 1 \/ i = Len(a) THEN a[i]
        ELSE IF NaN \in {a[i - 1], a[i], a[i + 1]} THEN NaN
        ELSE RoundDiv(a[i - 1] + a[i] + a[i + 1], 3)]

\* variant: the pie counts the 5-star and the 1-star reviews only
PieOfEnds(d) == <<d[5], d[3], d[1]>>

\* [pos, neu, neg] of filterRatings: d[3]+d[4], d[2], d[0]+d[1]
Pie(d) == <<d[4] + d[5], d[3], d[1] + d[2]>>

\* the charts created by lines 552-595
ChartsOverview(d) ==
    [sentimentDonut |-> << <<d.meta.count_pos, d.meta.count_neu,
                             d.meta.count_neg>> >>,
     yearlyBar |-> <<d.yearly.counts>>,
     monthlyLine |-> <<d.monthly.all>>,
     ratingBarOverview |-> <<d.rating_all>>,
     ratingBarDetail |-> <<d.rating_all>>,
     sentimentPie |-> << <<d.meta.count_pos, d.meta.count_neu,
                           d.meta.count_neg>> >>,
     ratingTrend |-> <<d.monthly.avg_rating,
                       rolling(d.monthly.avg_rating),
                       [k \in 1..Len(d.monthly.labels) |-> d.meta.avg_rating]>>,
     trendLine |-> <<d.monthly.all>>,
     heatmapChart |-> <<d.heatmap.data>>]

\* the two bar charts of lines 615-616
ChartsWords(d) ==
    [topWordsPos |-> <<[k \in 1..Len(d.words.pos) |-> d.words.pos[k].count]>>,
     topWordsNeg |-> <<[k \in 1..Len(d.words.neg) |-> d.words.neg[k].count]>>]

\* the charts of lines 625-642
ChartsInsights(d) ==
    [thumbsChart |-> <<[k \in 1..Min(8, Len(d.top_reviews)) |->
                          d.top_reviews[k].thumbs]>>,
     langDonut |-> <<d.languages.counts>>,
     langRating |-> <<d.languages.avg_ratings>>,
     lengthChart |-> << <<d.meta.avg_len_pos, d.meta.avg_len_neu,
                          d.meta.avg_len_neg>> >>,
     stackedBar |-> [k \in 1..5 |-> d.stacked.by_star[6 - k].value]]

\* the rows of #timeline-chart: the year and its count (the width of the
\* bar is a style)
Timeline(d) ==
    [i \in 1..Len(d.yearly.labels) |->
        [year |-> d.yearly.labels[i], count |-> d.yearly.counts[i]]]

\* the rows of #lang-bars: the label and its share of the sample, in tenths
\* of a percent (toFixed(1))
LangBars(d) ==
    LET total == SumSeq(d.languages.counts)
    IN [i \in 1..Len(d.languages.labels) |->
          [label |-> d.languages.labels[i],
           pct |-> toFixed(1000 * d.languages.counts[i], total)]]

\* renderCloud reads words[0].count before it clears the container: on an
\* empty list this is a TypeError and the container keeps its content
CloudThrows(type) == D'.words[type] = <<>>
renderCloud(type) ==
    [k \in 1..Len(D'.words[type]) |->
        [word |-> D'.words[type][k].word, count |-> D'.words[type][k].count]]

\* const reviews of renderReviews
Reviews(filter) ==
    IF filter = "all" THEN D'.top_reviews
    ELSE IF filter = "pos"
    THEN SelectSeq(D'.top_reviews, LAMBDA r : r.rating >= 4)
    ELSE SelectSeq(D'.top_reviews, LAMBDA r : r.rating <= 2)

\* String.repeat(n) is a RangeError for n < 0: the stars of a review are
\* repeat(rating) and repeat(5 - rating), and the list keeps its content
ReviewsThrow(filter) ==
    \E k \in 1..Len(Reviews(filter)) :
        Reviews(filter)[k].rating < 0 \/ Reviews(filter)[k].rating > 5

\* the script block, lines 533-654, run once when the document is opened.
\* Function declarations are hoisted, so the handlers exist even when a
\* statement of the block throws and the statements after it never run.
LoadPage ==
    /\ page_script = "none"
    /\ out_file.exists /\ out_file.content.D # Unset
    /\ D' = out_file.content.D
    /\ IF CloudThrows("all")
       THEN \* line 613
            /\ page_script' = "TypeError"
            /\ charts' = ChartsOverview(D')
            /\ html' = [html EXCEPT
                 !.year_filter_btns = Keys(D'.rating_by_year),
                 !.timeline_chart = Timeline(D')]
       ELSE IF ReviewsThrow("all")
       THEN \* line 623
            /\ page_script' = "RangeError"
            /\ charts' = ChartsOverview(D') @@ ChartsWords(D')
            /\ html' = [html EXCEPT
                 !.year_filter_btns = Keys(D'.rating_by_year),
                 !.timeline_chart = Timeline(D'),
                 !.wordcloud = renderCloud("all")]
       ELSE /\ page_script' = "done"
            /\ charts' = ChartsOverview(D') @@ ChartsWords(D')
                            @@ ChartsInsights(D')
            /\ html' = [html EXCEPT
                 !.year_filter_btns = Keys(D'.rating_by_year),
                 !.timeline_chart = Timeline(D'),
                 !.wordcloud = renderCloud("all"),
                 !.review_list = Reviews("all"),
                 !.lang_bars = LangBars(D')]
    /\ UNCHANGED <<active, sidebar_open, overlay_show, last_call>>
    /\ UNCHANGED <<csv_file, out_file, pc, err, run, prev, round_nan, now_year,
                   script>>

\* variant: a navigation item matches on the first letter of the id
NavItemsByInitial(id) == {n \in Pages : Contains(<<id[1]>>, onclick(n))}

\* the navigation items whose onclick attribute includes the id
NavItemsOf(id) == {n \in Pages : Contains(id, onclick(n))}

toggleSidebar(force) ==
    LET open == IF force # "undefined" THEN force = "true" ELSE ~sidebar_open
    IN sidebar_open' = open /\ overlay_show' = open

\* a click on a navigation item; narrow is window.innerWidth < 900
showPage ==
    /\ page_script # "none"
    /\ \E n \in Pages, narrow \in BOOLEAN :
         LET id == PageId[n]
         IN /\ active' = [active EXCEPT
                  !.page = {p \in Pages : PageId[p] = id},
                  !.nav = NavItemsOf(id)]
            /\ IF narrow THEN toggleSidebar("false")
               ELSE UNCHANGED <<sidebar_open, overlay_show>>
            /\ last_call' = [last_call EXCEPT !.showPage = id]
    /\ UNCHANGED <<page_script, D, charts, html>>
    /\ UNCHANGED <<csv_file, out_file, pc, err, run, prev, round_nan, now_year,
                   script>>

\* a click on the hamburger button or on the overlay: toggleSidebar()
ToggleSidebar ==
    /\ page_script # "none"
    /\ toggleSidebar("undefined")
    /\ UNCHANGED <<page_script, D, active, charts, html, last_call>>
    /\ UNCHANGED <<csv_file, out_file, pc, err, run, prev, round_nan, now_year,
                   script>>

\* a click on 'All Years' or on one of the year buttons made at line 559
filterRatings ==
    /\ page_script # "none"
    /\ \E yr \in {ALL} \cup Range(html.year_filter_btns) :
         LET d == IF yr = ALL THEN D.rating_all ELSE Lookup(D.rating_by_year, yr)
         IN /\ active' = [active EXCEPT !.ratings = {yr}]
            /\ html' = [html EXCEPT
                  !.rating_year_badge = IF yr = ALL THEN AllYears ELSE yr]
            /\ charts' = [charts EXCEPT !.ratingBarDetail = <<d>>,
                                        !.sentimentPie = <<Pie(d)>>]
            /\ last_call' = [last_call EXCEPT !.filterRatings = yr]
    /\ UNCHANGED <<page_script, D, sidebar_open, overlay_show>>
    /\ UNCHANGED <<csv_file, out_file, pc, err, run, prev, round_nan, now_year,
                   script>>

switchTrend ==
    /\ page_script # "none"
    /\ \E t \in Tabs :
         /\ active' = [active EXCEPT !.trends = {t}]
         /\ charts' = [charts EXCEPT !.trendLine = <<D.monthly[t]>>]
         /\ last_call' = [last_call EXCEPT !.switchTrend = t]
    /\ UNCHANGED <<page_script, D, sidebar_open, overlay_show, html>>
    /\ UNCHANGED <<csv_file, out_file, pc, err, run, prev, round_nan, now_year,
                   script>>

switchCloud ==
    /\ page_script # "none"
    /\ D' = D
    /\ \E t \in Tabs :
         /\ active' = [active EXCEPT !.words = {t}]
         /\ html' = IF CloudThrows(t) THEN html
                    ELSE [html EXCEPT !.wordcloud = renderCloud(t)]
         /\ last_call' = [last_call EXCEPT !.switchCloud = t]
    /\ UNCHANGED <<page_script, sidebar_open, overlay_show, charts>>
    /\ UNCHANGED <<csv_file, out_file, pc, err, run, prev, round_nan, now_year,
                   script>>

filterReviews ==
    /\ page_script # "none"
    /\ D' = D
    /\ \E t \in Tabs :
         /\ active' = [active EXCEPT !.reviews = {t}]
         /\ html' = IF ReviewsThrow(t) THEN html
                    ELSE [html EXCEPT !.review_list = Reviews(t)]
         /\ last_call' = [last_call EXCEPT !.filterReviews = t]
    /\ UNCHANGED <<page_script, sidebar_open, overlay_show, charts>>
    /\ UNCHANGED <<csv_file, out_file, pc, err, run, prev, round_nan, now_year,
                   script>>

\* the documents opened
\* months of unequal sizes over two years: 2023-01 5* 'Taxi good taxi',
\* 2023-01 5* Arabic, 2023-12 1* 'good-driver cab', 2024-01 2* 'le taxi',
\* 2024-01 3* 'the app'
PageMixed ==
    << [Row0 EXCEPT !.rating = Stars(5), !.text = TextTaxi,
                    !.thumbs_up_count = 2],
       [Row0 EXCEPT !.rating = Stars(5), !.text = TextArabic,
                    !.thumbs_up_count = 1],
       [Row0 EXCEPT !.rating = Stars(1), !.text = TextDriver,
                    !.review_month = 12, !.thumbs_up_count = 3],
       [Row0 EXCEPT !.rating = Stars(2), !.text = TextFrench,
                    !.review_year = 2024],
       [Row0 EXCEPT !.rating = Stars(3), !.text = TextEnglish,
                    !.review_year = 2024] >>
\* the only positive review is in Arabic: no word of [a-zA-Z...]{4,}
PageNoPositiveWord ==
    << [Row0 EXCEPT !.rating = Stars(5), !.text = TextArabic],
       [Row0 EXCEPT !.rating = Stars(3), !.text = TextTaxi],
       [Row0 EXCEPT !.rating = Stars(1), !.text = TextTaxi] >>
\* one review, in Arabic: no word at all
PageNoWord == <<[Row0 EXCEPT !.text = TextArabic]>>
\* a rating of 6 among the top reviews
PageSixStars ==
    << [Row0 EXCEPT !.rating = Stars(6), !.text = TextTaxi],
       [Row0 EXCEPT !.rating = Stars(3), !.text = TextTaxi],
       [Row0 EXCEPT !.rating = Stars(1), !.text = TextTaxi] >>
PageTables == {PageMixed, PageNoPositiveWord, PageNoWord, PageSixStars}

InitPage == InitWith({File(t) : t \in PageTables}, {NoOutput})

NextPage ==
    \/ Next
    \/ LoadPage \/ showPage \/ ToggleSidebar \/ filterRatings \/ switchTrend
    \/ switchCloud \/ filterReviews

SpecPage == InitPage /\ [][NextPage]_vars

(***************************************************************************)
(* Properties                                                              *)
(***************************************************************************)
Labels == {"Positive", "Neutral", "Negative"}
Langs == {"Arabic", "French", "English"}

Count(S) == Cardinality(S)
Rows == 1..Len(df)

\* C1: once the sentiment column exists, every record carries exactly one
\* label of Positive / Neutral / Negative, fixed by the rating read from the
\* file alone (Positive iff rating >= 4, Negative iff rating <= 2, Neutral
\* otherwise), in every later state of the run.
C1_SentimentFromRating ==
    Passed("derive") =>
        /\ Len(df) = Len(csv_file.rows)
        /\ \A i \in Rows :
             LET r == csv_file.rows[i].rating
                 s == df[i].sentiment
             IN /\ s \in Labels
                /\ df[i].rating = r
                /\ (s = "Positive") = (r # NaN /\ r >= Stars(4))
                /\ (s = "Negative") = (r # NaN /\ r <= Stars(2))
                /\ (s = "Neutral") = (r = NaN \/ (r > Stars(2) /\ r < Stars(4)))

\* a completed run with the three labels, a 4-star Positive and a 3.5-star
\* Neutral among them
C1_Witness ==
    /\ pc = "done"
    /\ \E i, j, k \in Rows :
         /\ df[i].rating = Stars(4) /\ df[i].sentiment = "Positive"
         /\ df[j].rating = 7 /\ df[j].sentiment = "Neutral"
         /\ df[k].sentiment = "Negative"

CellCount(yi, mi) ==
    Count({i \in Rows : /\ df[i].review_year = ObservedYears[yi + 1]
                        /\ df[i].review_month = mi + 1})

C4_PosNegWithinTotal ==
    Passed("temporal") =>
        /\ Len(monthly.all) = Len(monthly.labels)
        /\ Len(monthly.pos) = Len(monthly.labels)
        /\ Len(monthly.neg) = Len(monthly.labels)
        /\ \A k \in 1..Len(monthly.labels) :
             /\ monthly.pos[k] + monthly.neg[k] <= monthly.all[k]
             /\ monthly.all[k] - monthly.pos[k] - monthly.neg[k] =
                  Count({i \in Rows : /\ df[i].ym = monthly.labels[k]
                                      /\ \/ df[i].rating = NaN
                                         \/ /\ df[i].rating > Stars(2)
                                            /\ df[i].rating < Stars(4)})

\* two year-months, one with a Neutral record beside a counted one, one
\* without any Positive record
C4_Witness ==
    /\ pc = "done"
    /\ \E k, l \in 1..Len(monthly.labels) :
         /\ monthly.pos[k] + monthly.neg[k] < monthly.all[k]
         /\ monthly.pos[k] + monthly.neg[k] > 0
         /\ monthly.pos[l] = 0 /\ monthly.neg[l] = monthly.all[l]

Ahead(i) ==
    Count({j \in Rows :
              \/ df[j].thumbs_up_count > df[i].thumbs_up_count
              \/ (df[j].thumbs_up_count = df[i].thumbs_up_count /\ j < i)})

ListedAt(i, k) ==
    /\ k <= Len(top_reviews)
    /\ top_reviews[k].thumbs = df[i].thumbs_up_count
    /\ top_reviews[k].rating = csv_file.rows[i].rating \div 2
    /\ top_reviews[k].text = Prefix(df[i].text, 300)

ArabicIn(text) == Count({i \in 1..Len(text) : text[i] \in 1536..1791})
LatinIn(text) == Count({i \in 1..Len(text) : IsLatin(text[i])})
AnaText == <<65, 110, 97, 32, 110, 101, 104, 119, 101, 115, 32, 97, 112, 112, 32,
             109, 108, 105, 104, 97, 32, 98, 101, 122, 97, 102>>

C8_ArabicIffMoreArabic ==
    Passed("lang") =>
        \A k \in 1..Len(sample) :
            /\ (sample[k].lang = "Arabic") =
                   (ArabicIn(sample[k].text) > LatinIn(sample[k].text))
            /\ ArabicIn(sample[k].text) = 0 => sample[k].lang # "Arabic"
            /\ sample[k].text = AnaText => sample[k].lang # "Arabic"

\* a text with as many Arabic code points as Latin letters, not Arabic
C8_Witness ==
    /\ pc = "done"
    /\ \E k \in 1..Len(sample) :
         /\ ArabicIn(sample[k].text) > 0
         /\ ArabicIn(sample[k].text) = LatinIn(sample[k].text)
         /\ sample[k].lang # "Arabic"

\* C9 as stated: for a text not labelled Arabic, the label is French exactly
\* when the French markers have at least as many occurrences in the
\* lower-cased text as the English markers.
OccurrencesOf(m, t) ==
    Count({i \in 1..(Len(t) - Len(m) + 1) : \A k \in 1..Len(m) : t[i + k - 1] = m[k]})
TotalOccurrences(markers, t) ==
    SumSeq([k \in 1..Len(markers) |-> OccurrencesOf(markers[k], t)])

C9_FrenchByOccurrences ==
    Passed("lang") =>
        \A k \in 1..Len(sample) :
            sample[k].lang # "Arabic" =>
                (sample[k].lang = "French") =
                    (TotalOccurrences(fr_markers, lower(sample[k].text))
                        >= TotalOccurrences(en_markers, lower(sample[k].text)))

\* C9 amended: for a text not labelled Arabic, the label is French exactly
\* when at least as many of the French markers as of the English markers
\* occur in the lower-cased text, a marker that occurs several times
\* counting once; else it is English.
MarkersPresent(markers, t) ==
    Count({m \in Range(markers) : OccurrencesOf(m, t) > 0})

C9_FrenchByMarkersPresent ==
    Passed("lang") =>
        \A k \in 1..Len(sample) :
            sample[k].lang # "Arabic" =>
                /\ sample[k].lang \in {"French", "English"}
                /\ (sample[k].lang = "French") =
                     (MarkersPresent(fr_markers, lower(sample[k].text))
                         >= MarkersPresent(en_markers, lower(sample[k].text)))

\* a French text in which one English marker occurs more often than all the
\* French markers together
C9_Witness ==
    /\ pc = "done"
    /\ \E k \in 1..Len(sample) :
         /\ sample[k].lang = "French"
         /\ MarkersPresent(en_markers, lower(sample[k].text)) > 0
         /\ TotalOccurrences(fr_markers, lower(sample[k].text))
              < TotalOccurrences(en_markers, lower(sample[k].text))

RatingsRead == [i \in 1..Len(csv_file.rows) |-> csv_file.rows[i].rating]
Rated(P(_)) == Count({i \in 1..Len(RatingsRead) :
                         RatingsRead[i] # NaN /\ P(RatingsRead[i])})
\* x is the fraction num / den rounded to the nearest integer
IsRounded(x, num, den) ==
    /\ 2 * x * den <= 2 * num + den
    /\ 2 * x * den >= 2 * num - den
ExampleRatings == <<Stars(5), Stars(4), Stars(3), Stars(2), Stars(1)>>

C11_KpisOfRatings ==
    /\ Passed("kpi") =>
         LET n == Len(RatingsRead)
             valid == SelectSeq(RatingsRead, LAMBDA r : r # NaN)
         IN /\ meta.total = n
            /\ valid # <<>> =>
                  IsRounded(meta.avg_rating, 50 * SumSeq(valid), Len(valid))
            /\ IsRounded(meta.pct_positive,
                         1000 * Rated(LAMBDA r : r >= Stars(4)), n)
            /\ IsRounded(meta.pct_negative,
                         1000 * Rated(LAMBDA r : r <= Stars(2)), n)
            /\ IsRounded(meta.pct_neutral,
                         1000 * Rated(LAMBDA r : r = Stars(3)), n)
            /\ RatingsRead = ExampleRatings =>
                  /\ meta.avg_rating = 300
                  /\ meta.pct_positive = 400
                  /\ meta.pct_negative = 400
                  /\ meta.pct_neutral = 200
    /\ (Passed("ratings") /\ RatingsRead = ExampleRatings) =>
         rating_all = <<1, 1, 1, 1, 1>>

\* the example has run to the end, and so has a table whose shares are
\* not whole tenths of a percent (two records in three are Positive)
C11_Witness ==
    /\ pc = "done"
    /\ RatingsRead = ExampleRatings
    /\ DATA.meta.avg_rating = 300
    /\ DATA.meta.pct_positive = 400
    /\ DATA.meta.pct_negative = 400
    /\ DATA.meta.pct_neutral = 200
    /\ DATA.rating_all = <<1, 1, 1, 1, 1>>

\* C12: the output file changes in one step only, the last of the script,
\* taken when the load and every aggregate have completed; so a run that
\* fails (no file, no permission, a column absent, a cell that is not a
\* number, or any other exception) leaves the output path as it was: absent
\* if it was absent, the older document untouched if there was one.
AllComputed ==
    /\ df # Unset \/ csv_file.rows = <<>>
    /\ meta # Unset /\ rating_all # Unset /\ yearly # Unset
    /\ monthly # Unset /\ heatmap # Unset /\ stacked # Unset
    /\ words # Unset /\ languages # Unset /\ DATA # Unset

C12_OutputOnlyAtLastStep ==
    [][ /\ out_file' # out_file =>
             /\ pc = "write" /\ pc' = "done" /\ err' = ""
             /\ AllComputed
        /\ pc' = "failed" => out_file' = out_file
        /\ pc = "failed" => out_file' = out_file ]_vars

\* a run stopped by a cell that is not a number, the older document still
\* in place
C12_Witness ==
    /\ pc = "failed"
    /\ err = "ValueError: astype(int)"
    /\ \E i \in 1..Len(csv_file.rows) : csv_file.rows[i].review_year = NotNumber
    /\ out_file = OldOutput

\* C13: a review_date that cannot be parsed becomes a null date and never
\* ends the run, however many rows have one: date_min and date_max are the
\* smallest and largest of the dates that parse, a top review with a null
\* date shows 'NaT', and no run is ended by a null date.
ParsedDates ==
    {to_datetime(csv_file.rows[i].review_date) : i \in 1..Len(csv_file.rows)}
        \ {NaT}

C13_NullDatesNeverAbort ==
    /\ err # "ValueError: NaT strftime"
    /\ Passed("kpi") =>
         /\ \E d \in ParsedDates :
              /\ meta.date_min = strftime(d)
              /\ \A e \in ParsedDates : DateLeq(d, e)
         /\ \E d \in ParsedDates :
              /\ meta.date_max = strftime(d)
              /\ \A e \in ParsedDates : DateLeq(e, d)
    /\ Passed("top") =>
         \A k \in 1..Len(top_reviews) :
            \/ top_reviews[k].date = <<78, 97, 84>>
            \/ \E d \in ParsedDates : top_reviews[k].date = strftime(d)

\* C14: the loader fails the run whenever a rating, review_year or
\* review_month cell does not parse as an integer: a file with such a cell
\* (a rating of 3.5, an empty rating) never gets past the load, and no run
\* completes with it.
IsInteger(v) == v \notin {NaN, NotNumber} /\ v % 2 = 0
HasNonInteger ==
    \E i \in 1..Len(csv_file.rows) :
        \/ HasColumn("rating") /\ ~IsInteger(csv_file.rows[i].rating)
        \/ HasColumn("review_year")
              /\ csv_file.rows[i].review_year \in {NaN, NotNumber}
        \/ HasColumn("review_month")
              /\ csv_file.rows[i].review_month \in {NaN, NotNumber}

C14_NonIntegerFailsLoad ==
    HasNonInteger => (pc = "load" \/ (pc = "failed" /\ df = Unset))

\* C15: the full years, which are the keys of rating_by_year and the years
\* of stacked, are the observed review years strictly earlier than the
\* calendar year of the run, in ascending order: the current year is left
\* out and every earlier observed year is in.
YearsRead == {csv_file.rows[i].review_year : i \in 1..Len(csv_file.rows)}

C15_FullYearsBeforeNow ==
    /\ Passed("ratings") =>
         /\ Range(full_years) = {y \in YearsRead : y < now_year}
         /\ \A k \in 1..(Len(full_years) - 1) : full_years[k] < full_years[k + 1]
         /\ Len(rating_by_year) = Len(full_years)
         /\ \A k \in 1..Len(full_years) :
              rating_by_year[k].key = Str(full_years[k])
    /\ Passed("stacked") =>
         /\ Len(stacked.years) = Len(full_years)
         /\ \A k \in 1..Len(full_years) : stacked.years[k] = Str(full_years[k])
         /\ \A r \in 1..5 : Len(stacked.by_star[r].value) = Len(full_years)

\* a run in 2024 on reviews of 2023 and 2024: 2023 is the one full year
C15_Witness ==
    /\ pc = "done"
    /\ now_year = 2024
    /\ YearsRead = {2023, 2024}
    /\ full_years = <<2023>>
    /\ Keys(DATA.rating_by_year) = <<Str(2023)>>
    /\ DATA.stacked.years = <<Str(2023)>>

\* C16: when no record has one of the three sentiments the run does not
\* fail: the average text length of that group is nan in the KPIs and the
\* run goes on to the end.
NoneLabelled(s) == \A i \in Rows : df[i].sentiment # s

C16_EmptyGroupGivesNaN ==
    /\ err # "ValueError: round(nan)"
    /\ Passed("kpi") =>
         /\ NoneLabelled("Positive") => meta.avg_len_pos = NaN
         /\ NoneLabelled("Neutral") => meta.avg_len_neu = NaN
         /\ NoneLabelled("Negative") => meta.avg_len_neg = NaN

\* C17: top_words(series, n) returns at most n entries; each is a maximal
\* run of letters of the class in a lower-cased text, 4 letters or more, not
\* a stopword, with for count the number of its occurrences over the whole
\* series; counts do not increase along the list, and words of equal count
\* are in the order in which they were first met; a word left out has no
\* more occurrences than the last word listed.
\* the positions at which w is a maximal run of letters of t
RunsOf(w, t) ==
    {p \in 1..(Len(t) - Len(w) + 1) :
        /\ \A k \in 1..Len(w) : t[p + k - 1] = w[k]
        /\ (p = 1 \/ ~IsLatin(t[p - 1]))
        /\ (p + Len(w) > Len(t) \/ ~IsLatin(t[p + Len(w)]))}
CountIn(w, series) ==
    SumSeq([i \in 1..Len(series) |-> Count(RunsOf(w, lower(series[i])))])
\* where w is first met: the text, then the position in the text
FirstMet(w, series) ==
    LET i == CHOOSE j \in 1..Len(series) :
                 /\ RunsOf(w, lower(series[j])) # {}
                 /\ \A h \in 1..(j - 1) : RunsOf(w, lower(series[h])) = {}
        p == CHOOSE q \in RunsOf(w, lower(series[i])) :
                 \A r \in RunsOf(w, lower(series[i])) : q <= r
    IN <<i, p>>
Earlier(a, b) == a[1] < b[1] \/ (a[1] = b[1] /\ a[2] < b[2])
IsCounted(w) ==
    /\ Len(w) >= 4
    /\ \A k \in 1..Len(w) : IsLatin(w[k]) /\ LowerChar(w[k]) = w[k]
    /\ w \notin STOPWORDS
\* the maximal runs of letters of t
RunsIn(t) ==
    LET breaks == {j \in 1..Len(t) : ~IsLatin(t[j])} \cup {Len(t) + 1}
    IN {SubSeq(t, p, (CHOOSE j \in breaks :
                         j > p /\ \A k \in breaks : k > p => j <= k) - 1) :
          p \in {i \in 1..Len(t) : IsLatin(t[i]) /\ (i = 1 \/ ~IsLatin(t[i - 1]))}}

IsTopWords(list, series, n) ==
    /\ Len(list) <= n
    /\ \A k \in 1..Len(list) :
         /\ IsCounted(list[k].word)
         /\ list[k].count >= 1
         /\ list[k].count = CountIn(list[k].word, series)
    /\ \A k \in 1..(Len(list) - 1) :
         \/ list[k].count > list[k + 1].count
         \/ /\ list[k].count = list[k + 1].count
            /\ Earlier(FirstMet(list[k].word, series),
                       FirstMet(list[k + 1].word, series))
    /\ \A i \in 1..Len(series) : \A w \in RunsIn(lower(series[i])) :
         IsCounted(w) =>
            \/ \E k \in 1..Len(list) : list[k].word = w
            \/ Len(list) = n /\ CountIn(w, series) <= list[n].count

TextsLabelled(s) ==
    LET rows == SelectSeq(df, LAMBDA row : row.sentiment = s)
    IN [i \in 1..Len(rows) |-> rows[i].text]

FieldsAsLoaded ==
    /\ Len(df) = Len(csv_file.rows)
    /\ \A i \in Rows :
         /\ \A f \in csv_file.columns \ {"review_date", "text"} :
              df[i][f] = csv_file.rows[i][f]
         /\ df[i].review_date = to_datetime(csv_file.rows[i].review_date)
         /\ df[i].text = IF csv_file.rows[i].text = NA THEN <<>>
                         ELSE csv_file.rows[i].text

\* the sample is a copy: it has the label, the table does not
SampleIsCopy ==
    Passed("lang") =>
        /\ \A i \in Rows : "lang" \notin DOMAIN df[i]
        /\ \A k \in 1..Len(sample) :
             /\ "lang" \in DOMAIN sample[k]
             /\ \A f \in DOMAIN df[sample[k].index] :
                  sample[k][f] = df[sample[k].index][f]

IsKeyOf(label, y, m) ==
    LET n == Len(Str(y))
    IN /\ Len(label) = n + 3
       /\ SubSeq(label, 1, n) = Str(y)
       /\ label[n + 1] = 45
       /\ label[n + 2] = 48 + (m \div 10)
       /\ label[n + 3] = 48 + (m % 10)
\* the records read from the file for a monthly label
ReadFor(label) ==
    SelectSeq(csv_file.rows,
              LAMBDA row : IsKeyOf(label, row.review_year, row.review_month))

\* C19: the monthly series all, pos, neg and avg_rating have one entry per
\* monthly label; the labels are the zero-padded year-month keys of the
\* records, each once, in ascending order; every entry of all is >= 1 (the
\* number of records of the key), and pos and neg hold the number of
\* Positive and of Negative records of the key, 0 when there is none.
C19_MonthlySeries ==
    Passed("temporal") =>
        LET labels == monthly.labels
        IN /\ Len(monthly.all) = Len(labels)
           /\ Len(monthly.pos) = Len(labels)
           /\ Len(monthly.neg) = Len(labels)
           /\ Len(monthly.avg_rating) = Len(labels)
           /\ \A i \in 1..Len(csv_file.rows) : \E k \in 1..Len(labels) :
                IsKeyOf(labels[k], csv_file.rows[i].review_year,
                        csv_file.rows[i].review_month)
           /\ \A k \in 1..(Len(labels) - 1) : StrLess(labels[k], labels[k + 1])
           /\ \A k \in 1..Len(labels) :
                /\ monthly.all[k] >= 1
                /\ monthly.all[k] = Len(ReadFor(labels[k]))
                /\ monthly.pos[k] =
                     Len(SelectSeq(ReadFor(labels[k]),
                            LAMBDA row : row.rating # NaN /\ row.rating >= Stars(4)))
                /\ monthly.neg[k] =
                     Len(SelectSeq(ReadFor(labels[k]),
                            LAMBDA row : row.rating # NaN /\ row.rating <= Stars(2)))

\* a completed run with the labels '2023-01' and '2023-12' among others, a
\* label without Positive record and a label without Negative record
C19_Witness ==
    /\ pc = "done"
    /\ \E k, l \in 1..Len(monthly.labels) :
         /\ k < l
         /\ monthly.labels[k] = <<50, 48, 50, 51, 45, 48, 49>>
         /\ monthly.labels[l] = <<50, 48, 50, 51, 45, 49, 50>>
    /\ \E k \in 1..Len(monthly.labels) : monthly.pos[k] = 0 /\ monthly.all[k] >= 1
    /\ \E k \in 1..Len(monthly.labels) : monthly.neg[k] = 0 /\ monthly.all[k] >= 2

\* C20: in the monthly mean-rating series a month whose mean is missing
\* (none of its records has a rating) takes the value of the month before
\* it, not 0, and a month with rated records carries their mean rating to 2
\* decimals; a missing mean in the first month has nothing to take.
C20_MeanForwardFilled ==
    Passed("temporal") =>
        \A k \in 1..Len(monthly.labels) :
            LET rated == SelectSeq(ReadFor(monthly.labels[k]),
                                   LAMBDA row : row.rating # NaN)
                sum == SumSeq([i \in 1..Len(rated) |-> rated[i].rating])
            IN IF rated # <<>>
               THEN IsRounded(monthly.avg_rating[k], 50 * sum, Len(rated))
               ELSE IF k > 1
               THEN monthly.avg_rating[k] = monthly.avg_rating[k - 1]
               ELSE monthly.avg_rating[k] = NaN

\* a completed run with two months in a row without a rating, after a
\* month whose mean is 4.0: both carry 4.0
C20_Witness ==
    /\ pc = "done"
    /\ \E k \in 2..(Len(monthly.labels) - 1) :
         /\ \A row \in Range(ReadFor(monthly.labels[k])) : row.rating = NaN
         /\ \A row \in Range(ReadFor(monthly.labels[k + 1])) : row.rating = NaN
         /\ DATA.monthly.avg_rating[k - 1] = 400
         /\ DATA.monthly.avg_rating[k] = 400
         /\ DATA.monthly.avg_rating[k + 1] = 400

\* the index labels of the sampled records labelled lang
SampledAs(lang) ==
    {i \in 1..Len(RatingsRead) :
        \E j \in 1..Len(sample) : sample[j].index = i /\ sample[j].lang = lang}

IntegerRatings ==
    \A i \in 1..Len(RatingsRead) : IsInteger(RatingsRead[i])
Labelled(s) == Count({i \in Rows : df[i].sentiment = s})

\* C23: when every rating is an integer, count_pos, count_neu and count_neg
\* are the numbers of records labelled Positive, Neutral and Negative and
\* sum to total; the yearly counts sum to total, and n_years is the number
\* of yearly labels and the number of heatmap year labels.
C23_CountsAgree ==
    /\ Passed("kpi") /\ IntegerRatings =>
         /\ meta.count_pos = Labelled("Positive")
         /\ meta.count_neu = Labelled("Neutral")
         /\ meta.count_neg = Labelled("Negative")
         /\ meta.count_pos + meta.count_neu + meta.count_neg = meta.total
    /\ Passed("temporal") =>
         /\ SumSeq(yearly.counts) = meta.total
         /\ Len(yearly.counts) = Len(yearly.labels)
         /\ meta.n_years = Len(yearly.labels)
    /\ Passed("heatmap") => meta.n_years = Len(heatmap.year_labels)

\* a completed run on integer ratings with records of the three labels and
\* reviews of two years
C23_Witness ==
    /\ pc = "done"
    /\ IntegerRatings
    /\ DATA.meta.count_pos > 0 /\ DATA.meta.count_neu > 0
    /\ DATA.meta.count_neg > 0
    /\ Len(DATA.yearly.labels) = 2
    /\ Len(DATA.heatmap.year_labels) = 2

\* C24: in every state of the document, so after any sequence of showPage
\* calls with the ids of the seven pages, exactly one page element and
\* exactly one navigation item carry the class 'active', and both are those
\* of the id of the last call (of 'overview' before any call); after any
\* sequence of showPage and toggleSidebar calls, on a narrow or a wide
\* window, the sidebar is open exactly when the overlay is shown.
C24_OneActivePage ==
    /\ Count(active.page) = 1
    /\ Count(active.nav) = 1
    /\ active.nav = active.page
    /\ active.page = {n \in Pages :
          PageId[n] = IF last_call.showPage = <<>> THEN PageId.overview
                      ELSE last_call.showPage}
    /\ sidebar_open <=> overlay_show

\* the page of the top reviews shown after another page, with the sidebar
\* left open
C24_Witness ==
    /\ page_script = "done"
    /\ last_call.showPage = PageId.reviews
    /\ active.page = {"reviews"} /\ active.nav = {"reviews"}
    /\ sidebar_open /\ overlay_show

\* every rating cell of the file holds 1, 2, 3, 4 or 5
RatingsOneToFive ==
    \A i \in 1..Len(RatingsRead) : RatingsRead[i] \in {Stars(r) : r \in 1..5}
\* the histogram d is the one embedded under the key yr
IsHistogramOf(d, yr) ==
    IF yr = ALL THEN d = D.rating_all
    ELSE \E k \in 1..Len(D.rating_by_year) :
            D.rating_by_year[k].key = yr /\ d = D.rating_by_year[k].value
InitialPie == <<D.meta.count_pos, D.meta.count_neu, D.meta.count_neg>>

\* C25: after any sequence of filterRatings calls the bar chart shows the
\* histogram d of the last selected key (rating_all for 'all', the entry of
\* rating_by_year otherwise) and the pie shows the 4- and 5-star counts of
\* that d, its 3-star count, and its 1- and 2-star counts; when every rating
\* is one of 1..5 and the last key is 'all', the pie shows its initial data
\* [count_pos, count_neu, count_neg] again.
C25_FilterRatings ==
    last_call.filterRatings # <<>> =>
        /\ Len(charts.ratingBarDetail) = 1
        /\ IsHistogramOf(charts.ratingBarDetail[1], last_call.filterRatings)
        /\ LET d == charts.ratingBarDetail[1]
           IN charts.sentimentPie = << <<d[4] + d[5], d[3], d[1] + d[2]>> >>
        /\ last_call.filterRatings = ALL /\ RatingsOneToFive =>
              charts.sentimentPie = <<InitialPie>>

\* ratings of 1..5, 'all' selected by a call, the pie at its initial data,
\* in a document with a year button whose histogram gives another pie
C25_Witness ==
    /\ page_script = "done"
    /\ RatingsOneToFive
    /\ last_call.filterRatings = ALL
    /\ charts.sentimentPie = <<InitialPie>>
    /\ \E k \in 1..Len(D.rating_by_year) :
         LET d == D.rating_by_year[k].value
         IN /\ D.rating_by_year[k].key \in Range(html.year_filter_btns)
            /\ <<d[4] + d[5], d[3], d[1] + d[2]>> # InitialPie

\* every number embedded in D, whatever its place
NumbersOfD ==
    LET AllOf(series) == UNION {Range(series[k].value) : k \in 1..Len(series)}
        Counts(list) == {list[k].count : k \in 1..Len(list)}
    IN {D.meta.total, D.meta.avg_rating, D.meta.pct_positive,
        D.meta.pct_negative, D.meta.pct_neutral, D.meta.n_years,
        D.meta.count_pos, D.meta.count_neg, D.meta.count_neu,
        D.meta.avg_len_pos, D.meta.avg_len_neu, D.meta.avg_len_neg}
       \cup Range(D.rating_all) \cup AllOf(D.rating_by_year)
       \cup Range(D.yearly.counts)
       \cup Range(D.monthly.all) \cup Range(D.monthly.pos)
       \cup Range(D.monthly.neg) \cup Range(D.monthly.avg_rating)
       \cup AllOf(D.stacked.by_star)
       \cup Counts(D.words.all) \cup Counts(D.words.pos) \cup Counts(D.words.neg)
       \cup {D.top_reviews[k].thumbs : k \in 1..Len(D.top_reviews)}
       \cup {D.top_reviews[k].rating : k \in 1..Len(D.top_reviews)}
       \cup {D.heatmap.data[k].v : k \in 1..Len(D.heatmap.data)}
       \cup Range(D.languages.counts) \cup Range(D.languages.avg_ratings)

\* C22: the script of the document computes no new aggregate: at load and
\* after any sequence of interactions D is the record the aggregator wrote,
\* and every number of every series given to a chart or written to a list
\* is a number already present in D; the cells of the heatmap, the words of
\* the cloud and the reviews of the list are entries of D.
C22_NothingComputed ==
    page_script # "none" =>
        /\ D = out_file.content.D
        /\ \A c \in DOMAIN charts \ {"heatmapChart"} :
              \A k \in 1..Len(charts[c]) : Range(charts[c][k]) \subseteq NumbersOfD
        /\ charts.heatmapChart = <<D.heatmap.data>>
        /\ Range(html.wordcloud) \subseteq Range(D.words.all)
              \cup Range(D.words.pos) \cup Range(D.words.neg)
        /\ Range(html.review_list) \subseteq Range(D.top_reviews)
        /\ \A k \in 1..Len(html.timeline_chart) :
              html.timeline_chart[k].count \in NumbersOfD
        /\ \A k \in 1..Len(html.lang_bars) : html.lang_bars[k].pct \in NumbersOfD

\* C26: after any sequence of switchTrend, switchCloud and filterReviews
\* calls exactly one button of each of the three groups is active and what is
\* displayed is the data of the last selection: the trend chart shows
\* D.monthly[t], the cloud the words of D.words[t], and the review list the
\* reviews of D.top_reviews, in their order, with rating >= 4 for 'pos',
\* rating <= 2 for 'neg', all of them for 'all'.
C26_LastSelectionShown ==
    /\ Count(active.trends) = 1 /\ Count(active.words) = 1
    /\ Count(active.reviews) = 1
    /\ last_call.switchTrend # "" =>
         /\ active.trends = {last_call.switchTrend}
         /\ charts.trendLine = <<D.monthly[last_call.switchTrend]>>
    /\ last_call.switchCloud # "" =>
         /\ active.words = {last_call.switchCloud}
         /\ html.wordcloud = D.words[last_call.switchCloud]
    /\ last_call.filterReviews # "" =>
         /\ active.reviews = {last_call.filterReviews}
         /\ html.review_list =
              SelectSeq(D.top_reviews, LAMBDA r :
                  \/ last_call.filterReviews = "all"
                  \/ last_call.filterReviews = "pos" /\ r.rating >= 4
                  \/ last_call.filterReviews = "neg" /\ r.rating <= 2)

\* the histograms embedded in D
Histograms ==
    {D.rating_all} \cup {D.rating_by_year[k].value : k \in 1..Len(D.rating_by_year)}
\* s is the series a smoothed over three months: the ends are those of a,
\* a value in between is the mean of three neighbours to 2 decimals
IsRollingOf(s, a) ==
    /\ Len(s) = Len(a)
    /\ \A i \in 1..Len(a) :
         IF i = 1 \/ i = Len(a) THEN s[i] = a[i]
         ELSE IF a[i - 1] = NaN \/ a[i] = NaN \/ a[i + 1] = NaN THEN s[i] = NaN
         ELSE IsRounded(s[i], a[i - 1] + a[i] + a[i + 1], 3)

\* C22, amended: no interaction modifies D, and every series given to a
\* chart or written to a list is computed from D alone.  It is a value
\* present in D, selected or rearranged, except for four series the script
\* of the document derives: the 3-month rolling mean of monthly.avg_rating,
\* the constant line of meta.avg_rating, the pie [d4+d5, d3, d1+d2] of the
\* selected histogram d, and the share of each language in the sample.
C22_DerivedFromD ==
    page_script # "none" =>
        /\ D = out_file.content.D
        /\ \A c \in DOMAIN charts \ {"heatmapChart", "ratingTrend", "sentimentPie"} :
              \A k \in 1..Len(charts[c]) : Range(charts[c][k]) \subseteq NumbersOfD
        /\ charts.heatmapChart = <<D.heatmap.data>>
        /\ charts.ratingBarDetail[1] \in Histograms
        /\ charts.trendLine[1] \in {D.monthly.all, D.monthly.pos, D.monthly.neg}
        /\ Len(charts.ratingTrend) = 3
        /\ charts.ratingTrend[1] = D.monthly.avg_rating
        /\ IsRollingOf(charts.ratingTrend[2], D.monthly.avg_rating)
        /\ charts.ratingTrend[3] =
              [k \in 1..Len(D.monthly.labels) |-> D.meta.avg_rating]
        /\ \/ charts.sentimentPie = <<InitialPie>>
           \/ \E d \in Histograms :
                 charts.sentimentPie = << <<d[4] + d[5], d[3], d[1] + d[2]>> >>
        /\ Range(html.wordcloud) \subseteq Range(D.words.all)
              \cup Range(D.words.pos) \cup Range(D.words.neg)
        /\ Range(html.review_list) \subseteq Range(D.top_reviews)
        /\ \A k \in 1..Len(html.timeline_chart) :
              html.timeline_chart[k].count = D.yearly.counts[k]
        /\ \A k \in 1..Len(html.lang_bars) :
              /\ html.lang_bars[k].label = D.languages.labels[k]
              /\ IsRounded(html.lang_bars[k].pct, 1000 * D.languages.counts[k],
                           SumSeq(D.languages.counts))

\* a loaded document of three months whose rolling mean is a number that is
\* nowhere in D, with a year selected in the ratings filter and the negative
\* reviews in the trend chart
C22_Witness ==
    /\ page_script = "done"
    /\ Len(D.monthly.labels) = 3
    /\ charts.ratingTrend[2][2] \notin NumbersOfD
    /\ last_call.filterRatings \notin {<<>>, ALL}
    /\ last_call.switchTrend = "neg"

====
